---- MODULE Spec2Model ----
(***************************************************************************)
(* Model of the ScoutApp room page: the shared voice channel of a room     *)
(* (src/app/room/[roomId]/page.tsx) and the standalone one-to-one call     *)
(* page (src/unnamed/part_001), both signalling through Firestore.         *)
(*                                                                         *)
(* The store is one room: the calls collection, the voice/current          *)
(* singleton and the voiceMembers presence collection.  Every client is a  *)
(* browser tab on one of the two pages.  An async handler is a sequence of *)
(* steps, one per await that touches the store or the media devices; the   *)
(* position of a client's running handler is at[u].  Subscriptions are     *)
(* never unsubscribed by the code, so a subscription lives as long as the  *)
(* RTCPeerConnection record its callback closes over.                      *)
(***************************************************************************)
EXTENDS Integers, Sequences, FiniteSets, TLC

\* ------------------------------------------------------------------ bounds
MaxCalls == 2      \* CallSession documents that can be created
MaxPcs == 2        \* RTCPeerConnection objects alive at a time
MaxApply == 2      \* setRemoteDescription(answer) invocations on one connection
MaxWrites == 2     \* the answer-write counter saturates here
MaxCand == 2       \* ICE candidates a sub-collection of a session can hold

\* ------------------------------------------------------------------ universe
Users == {"u1", "u2"}
adminUid == "u1"
NoUser == "nobody"
NoDesc == "absent"
CallIds == 1 .. MaxCalls
PcIds == 1 .. MaxPcs
NoCall == 0
NoPc == 0

VARIABLES
  calls,          \* rooms/{roomId}/calls/{callId}: status, createdByUid, offer, answer
  voice,          \* rooms/{roomId}/voice/current: exists, callId
  voiceMembers,   \* rooms/{roomId}/voiceMembers: the uids with a presence record
  roomDoc,        \* rooms/{roomId}: the four settings, each "true", "false" or "unset"
  members,        \* rooms/{roomId}/members/{uid}: exists, role, canChat, canCall
  page,           \* which page each client has open: "voice" or "call"
  user,           \* useState user (auth)
  room,           \* useState room (the settings the resolver reads)
  myRole,         \* useState myRole
  myOverrides,    \* useState myOverrides
  loadData,       \* the room data the running room-load effect got from its getDoc
  faults,         \* environment: whether an awaited step may reject on a live connection
  cand,           \* calls/{callId}/offerCandidates and answerCandidates: the documents added
  iceLog,         \* per connection: how addIceCandidate settled for each document delivered
  voiceCallId,    \* useState voiceCallId (voice page)
  inVoice,        \* useState inVoice (voice page)
  voiceStatus,    \* useState voiceStatus (voice page)
  callId,         \* useState callId (call page)
  callStatus,     \* useState callStatus (call page)
  pcRef,          \* useRef pcRef: a connection id, or NoPc
  localStreamRef, \* useRef localStreamRef: the id of the connection the stream was acquired with
  audio,          \* useRef remoteAudioRef: whether the <audio> element has a srcObject
  pcs,            \* the RTCPeerConnection objects, each with its stream and its callbacks
  at,             \* position of the client's running async handler
  hcall,          \* the callId local of the running handler
  hpc,            \* the pc local of the running handler
  answerWrites,   \* history: number of writes of `answer` per call
  lastReturn      \* history: the last handler invocation that returned at its guard

storeVars == <<calls, voice, voiceMembers>>
iceVars == <<cand, iceLog>>
pageVars ==
  <<page, user, room, myRole, myOverrides, loadData, roomDoc, members, faults, iceVars>>
permVars == <<pageVars, audio>>
voiceLocal == <<voiceCallId, inVoice, voiceStatus>>
callLocal == <<callId, callStatus>>
rtcVars == <<pcRef, localStreamRef, pcs>>
handlerVars == <<at, hcall, hpc>>
vars == <<calls, voice, voiceMembers, roomDoc, members, page, user, room, myRole,
          myOverrides, loadData, faults, cand, iceLog,
          voiceCallId, inVoice, voiceStatus, callId, callStatus, pcRef,
          localStreamRef, audio, pcs, at, hcall, hpc, answerWrites, lastReturn>>

\* ------------------------------------------------------------------ resolver
isAdmin(u) == myRole[u] = "admin"

\* The chat resolver with the lock tested before the role.
effectiveCanChat_lockFirst(u) ==
  IF user[u] = NoUser \/ room[u].loaded = FALSE THEN FALSE
  ELSE IF room[u].lockChat = "true" THEN FALSE
  ELSE IF isAdmin(u) THEN TRUE
  ELSE IF myOverrides[u].canChat \in {"true", "false"} THEN myOverrides[u].canChat = "true"
  ELSE IF room[u].defaultCanChat = "unset" THEN TRUE
  ELSE room[u].defaultCanChat = "true"

effectiveCanChat(u) ==
  IF user[u] = NoUser \/ room[u].loaded = FALSE THEN FALSE
  ELSE IF isAdmin(u) THEN TRUE
  ELSE IF room[u].lockChat = "true" THEN FALSE
  ELSE IF myOverrides[u].canChat \in {"true", "false"} THEN myOverrides[u].canChat = "true"
  ELSE IF room[u].defaultCanChat = "unset" THEN TRUE
  ELSE room[u].defaultCanChat = "true"

\* The call resolver with the override tested before the lock.
effectiveCanCall_overrideFirst(u) ==
  IF user[u] = NoUser \/ room[u].loaded = FALSE THEN FALSE
  ELSE IF isAdmin(u) THEN TRUE
  ELSE IF myOverrides[u].canCall \in {"true", "false"} THEN myOverrides[u].canCall = "true"
  ELSE IF room[u].lockCalls = "true" THEN FALSE
  ELSE IF room[u].defaultCanCall = "unset" THEN TRUE
  ELSE room[u].defaultCanCall = "true"

\* The call resolver without the override rule.
effectiveCanCall_noOverride(u) ==
  IF user[u] = NoUser \/ room[u].loaded = FALSE THEN FALSE
  ELSE IF isAdmin(u) THEN TRUE
  ELSE IF room[u].lockCalls = "true" THEN FALSE
  ELSE IF room[u].defaultCanCall = "unset" THEN TRUE
  ELSE room[u].defaultCanCall = "true"

effectiveCanCall(u) ==
  IF user[u] = NoUser \/ room[u].loaded = FALSE THEN FALSE
  ELSE IF isAdmin(u) THEN TRUE
  ELSE IF room[u].lockCalls = "true" THEN FALSE
  ELSE IF myOverrides[u].canCall \in {"true", "false"} THEN myOverrides[u].canCall = "true"
  ELSE IF room[u].defaultCanCall = "unset" THEN TRUE
  ELSE room[u].defaultCanCall = "true"

\* The page states a client can have loaded: signed out; a member who may
\* call; a member locked out of calls; the admin (of a room with calls locked).
RoomOpen ==
  [loaded |-> TRUE, lockChat |-> "false", lockCalls |-> "false",
   defaultCanChat |-> "true", defaultCanCall |-> "true"]
RoomLocked ==
  [loaded |-> TRUE, lockChat |-> "false", lockCalls |-> "true",
   defaultCanChat |-> "true", defaultCanCall |-> "true"]
\* useState(null): no room data yet.
NoRoom ==
  [loaded |-> FALSE, lockChat |-> "unset", lockCalls |-> "unset",
   defaultCanChat |-> "unset", defaultCanCall |-> "unset"]
Profiles(u) ==
  {[user |-> NoUser, room |-> RoomOpen, myRole |-> "none"]} \cup
  (IF u = adminUid
     THEN {[user |-> u, room |-> RoomLocked, myRole |-> "admin"]}
     ELSE {[user |-> u, room |-> RoomOpen, myRole |-> "member"],
           [user |-> u, room |-> RoomLocked, myRole |-> "member"]})

\* ------------------------------------------------------------------ helpers
NewCallDoc(u) == [status |-> "open", createdByUid |-> u, offer |-> NoDesc, answer |-> NoDesc]
AbsentCall == [status |-> "none", createdByUid |-> NoUser, offer |-> NoDesc, answer |-> NoDesc]
Exists(c) == c \in CallIds /\ calls[c].status # "none"
NextCallId == Cardinality({c \in CallIds : calls[c].status # "none"}) + 1

NewPc(u, c, r) ==
  [owner |-> u, call |-> c, role |-> r, closed |-> FALSE, stopped |-> FALSE,
   remote |-> FALSE, sub |-> FALSE, dirty |-> FALSE, applyCalls |-> 0, cb |-> <<>>]
FreePc ==
  [owner |-> NoUser, call |-> NoCall, role |-> "none", closed |-> FALSE, stopped |-> FALSE,
   remote |-> FALSE, sub |-> FALSE, dirty |-> FALSE, applyCalls |-> 0, cb |-> <<>>]
FreeSlots == {i \in PcIds : pcs[i].owner = NoUser}
NewSlot == CHOOSE i \in FreeSlots : \A j \in FreeSlots : i <= j

\* A write to calls/{c} raises a snapshot on every subscription to that document.
MarkCall(P, c) ==
  [i \in PcIds |-> IF P[i].sub /\ P[i].call = c THEN [P[i] EXCEPT !.dirty = TRUE] ELSE P[i]]

\* A connection that is closed, whose stream is stopped, that no callback and
\* no running handler refers to, is garbage.
Collect(P, H) ==
  [i \in PcIds |-> IF /\ P[i].closed /\ P[i].stopped /\ ~P[i].sub /\ P[i].cb = <<>>
                      /\ \A u \in Users : H[u] # i
                     THEN FreePc ELSE P[i]]

\* cleanupCall's effect on the connection and stream objects: whatever the
\* refs point at now is closed and stopped.
CleanupPcs(P, u) ==
  Collect([i \in PcIds |-> [P[i] EXCEPT !.closed = @ \/ (i = pcRef[u]),
                                        !.stopped = @ \/ (i = localStreamRef[u])]], hpc)

\* getUserMedia resolved: the stream and a new connection are stored in the refs.
Acquire(u, c, r) ==
  /\ FreeSlots # {}
  /\ pcs' = [pcs EXCEPT ![NewSlot] = NewPc(u, c, r)]
  /\ pcRef' = [pcRef EXCEPT ![u] = NewSlot]
  /\ localStreamRef' = [localStreamRef EXCEPT ![u] = NewSlot]
  /\ hpc' = [hpc EXCEPT ![u] = NewSlot]

\* The handler returns, or ends on an unhandled rejection.
HandlerDone(u) ==
  /\ at' = [at EXCEPT ![u] = "idle"]
  /\ hcall' = [hcall EXCEPT ![u] = NoCall]
  /\ hpc' = [hpc EXCEPT ![u] = NoPc]

Init ==
  /\ calls = [c \in CallIds |-> AbsentCall]
  /\ voice = [exists |-> FALSE, callId |-> NoCall]
  /\ voiceMembers = {}
  /\ page \in [Users -> {"voice", "call"}]
  /\ \E prof \in [Users -> UNION {Profiles(u) : u \in Users}] :
       /\ \A u \in Users : prof[u] \in Profiles(u)
       /\ user = [u \in Users |-> prof[u].user]
       /\ room = [u \in Users |-> prof[u].room]
       /\ myRole = [u \in Users |-> prof[u].myRole]
  /\ myOverrides = [u \in Users |-> [canChat |-> "unset", canCall |-> "unset"]]
  /\ loadData = [u \in Users |-> NoRoom]
  /\ faults = FALSE
  /\ cand = [c \in CallIds |-> [offer |-> <<>>, answer |-> <<>>]]
  /\ iceLog = [i \in PcIds |-> <<>>]
  /\ roomDoc = [lockChat |-> "false", lockCalls |-> "true",
                defaultCanChat |-> "true", defaultCanCall |-> "true"]
  /\ members = [u \in Users |->
                  [exists |-> TRUE, role |-> IF u = adminUid THEN "admin" ELSE "member",
                   canChat |-> "unset", canCall |-> "unset"]]
  /\ voiceCallId = [u \in Users |-> NoCall]
  /\ inVoice = [u \in Users |-> FALSE]
  /\ voiceStatus = [u \in Users |-> "inactive"]
  /\ callId = [u \in Users |-> NoCall]
  /\ callStatus = [u \in Users |-> "none"]
  /\ pcRef = [u \in Users |-> NoPc]
  /\ localStreamRef = [u \in Users |-> NoPc]
  /\ audio = [u \in Users |-> FALSE]
  /\ pcs = [i \in PcIds |-> FreePc]
  /\ at = [u \in Users |-> "idle"]
  /\ hcall = [u \in Users |-> NoCall]
  /\ hpc = [u \in Users |-> NoPc]
  /\ answerWrites = [c \in CallIds |-> 0]
  /\ lastReturn = <<"none", NoUser>>

\* ------------------------------------------------------------------ voice/current subscription
\* The onSnapshot callback of voice/current, run on every voice page with the
\* document V as just written: setVoiceCallId and the status line.  It runs as
\* part of the write that raises it, on the writer's page too.
VoiceCallIdSeen(V) ==
  [u \in Users |-> IF page[u] = "voice"
                     THEN (IF V.exists THEN V.callId ELSE NoCall)
                     ELSE voiceCallId[u]]

VoiceStatusSeen(V) ==
  [u \in Users |-> IF page[u] = "voice"
                     THEN (IF V.exists /\ V.callId # NoCall THEN "active" ELSE "inactive")
                     ELSE voiceStatus[u]]

\* cleanupCall leaving the connection in pcRef after closing it.
cleanupCall_keepsRef(u) ==
  /\ pcs' = CleanupPcs(pcs, u)
  /\ pcRef' = pcRef
  /\ localStreamRef' = [localStreamRef EXCEPT ![u] = NoPc]
  /\ audio' = [audio EXCEPT ![u] = FALSE]
  /\ inVoice' = [inVoice EXCEPT ![u] = FALSE]

\* ------------------------------------------------------------------ local teardown
\* cleanupCall of the voice page: close, stop, clear both refs, detach the
\* remote audio, setInVoice(false).
cleanupCall(u) ==
  /\ pcs' = CleanupPcs(pcs, u)
  /\ pcRef' = [pcRef EXCEPT ![u] = NoPc]
  /\ localStreamRef' = [localStreamRef EXCEPT ![u] = NoPc]
  /\ audio' = [audio EXCEPT ![u] = FALSE]
  /\ inVoice' = [inVoice EXCEPT ![u] = FALSE]

\* ------------------------------------------------------------------ enterVoice
\* enterVoice as it would run without its capability check: the reference the
\* check is measured against.
enterVoice_unchecked(u) ==
  /\ page[u] = "voice" /\ at[u] = "idle" /\ ~inVoice[u]
  /\ IF user[u] = NoUser
       THEN /\ lastReturn' = <<"enterVoice", u>>
            /\ UNCHANGED at
       ELSE /\ at' = [at EXCEPT ![u] = IF voice.exists THEN "voiceGet" ELSE "ensureSet"]
            /\ UNCHANGED lastReturn
  /\ UNCHANGED <<storeVars, permVars, voiceLocal, callLocal, rtcVars, hcall, hpc,
                 answerWrites>>

\* The button is disabled while inVoice; the handler checks user and capability,
\* then ensureVoiceStateDoc's getDoc decides whether the document is to be created.
enterVoice(u) ==
  /\ page[u] = "voice" /\ at[u] = "idle" /\ ~inVoice[u]
  /\ IF user[u] = NoUser
       THEN /\ lastReturn' = <<"enterVoice", u>>
            /\ UNCHANGED <<voiceStatus, at>>
       ELSE IF ~effectiveCanCall(u)
         THEN /\ voiceStatus' = [voiceStatus EXCEPT ![u] = "noPermission"]
              /\ UNCHANGED <<at, lastReturn>>
         ELSE /\ at' = [at EXCEPT ![u] = IF voice.exists THEN "voiceGet" ELSE "ensureSet"]
              /\ UNCHANGED <<voiceStatus, lastReturn>>
  /\ UNCHANGED <<storeVars, permVars, voiceCallId, inVoice, callLocal, rtcVars, hcall, hpc,
                 answerWrites>>

\* ensureVoiceStateDoc's setDoc(merge), issued when its getDoc saw no document.
ensureVoiceStateDoc(u) ==
  /\ at[u] = "ensureSet"
  /\ voice' = [exists |-> TRUE, callId |-> NoCall]
  /\ voiceCallId' = VoiceCallIdSeen(voice')
  /\ voiceStatus' = VoiceStatusSeen(voice')
  /\ at' = [at EXCEPT ![u] = "voiceGet"]
  /\ UNCHANGED <<calls, voiceMembers, permVars, inVoice, callLocal, rtcVars, hcall, hpc,
                 answerWrites, lastReturn>>

\* setDoc(presence), then getDoc(voice/current) and the branch on data.callId.
\* One step: no other client reads or writes this user's presence record.
enterVoice_read(u) ==
  /\ at[u] = "voiceGet"
  /\ voiceMembers' = voiceMembers \cup {u}
  /\ IF voice.callId = NoCall
       THEN /\ voiceStatus' = [voiceStatus EXCEPT ![u] = "creatingRoom"]
            /\ at' = [at EXCEPT ![u] = "claim"]
            /\ UNCHANGED <<voiceCallId, hcall>>
       ELSE /\ voiceCallId' = [voiceCallId EXCEPT ![u] = voice.callId]
            /\ hcall' = [hcall EXCEPT ![u] = voice.callId]
            /\ voiceStatus' = [voiceStatus EXCEPT ![u] = "joining"]
            /\ at' = [at EXCEPT ![u] = "calleeGet"]
  /\ UNCHANGED <<calls, voice, permVars, inVoice, callLocal, rtcVars, hpc, answerWrites,
                 lastReturn>>

\* createCallDoc's addDoc, then updateDoc(voiceRef, {callId: newCallId}).  One
\* step: until the pointer is written no other client can learn the new id.
enterVoice_claim(u) ==
  /\ at[u] = "claim"
  /\ NextCallId <= MaxCalls
  /\ calls' = [calls EXCEPT ![NextCallId] = NewCallDoc(u)]
  /\ hcall' = [hcall EXCEPT ![u] = NextCallId]
  /\ voice' = [voice EXCEPT !.callId = NextCallId]
  /\ voiceCallId' = VoiceCallIdSeen(voice')
  /\ voiceStatus' = VoiceStatusSeen(voice')
  /\ at' = [at EXCEPT ![u] = "claimed"]
  /\ UNCHANGED <<voiceMembers, permVars, inVoice, callLocal, rtcVars, hpc, answerWrites,
                 lastReturn>>

\* The continuation after the awaited write: setVoiceCallId(newCallId), then
\* startAsCaller up to the point where getUserMedia settles: the stream and the
\* connection are created and stored in the refs, or the rejection ends the
\* handler where it stands.
enterVoice_claimed(u) ==
  /\ at[u] = "claimed"
  /\ voiceCallId' = [voiceCallId EXCEPT ![u] = hcall[u]]
  /\ voiceStatus' = [voiceStatus EXCEPT ![u] = "enteringCreate"]
  /\ \/ /\ Acquire(u, hcall[u], "caller")
        /\ at' = [at EXCEPT ![u] = "callerOffer"]
        /\ UNCHANGED hcall
     \/ /\ HandlerDone(u)
        /\ UNCHANGED rtcVars
  /\ UNCHANGED <<storeVars, permVars, inVoice, callLocal, answerWrites, lastReturn>>

\* createOffer, setLocalDescription, updateDoc({offer}), then both onSnapshot
\* registrations, setInVoice(true) and the status.  Any of the awaited
\* steps may reject, and createOffer does on a connection closed in the
\* meantime: the handler ends there, nothing catches the rejection.
startAsCaller(u) ==
  /\ at[u] = "callerOffer"
  /\ \/ /\ faults \/ pcs[hpc[u]].closed
        /\ UNCHANGED <<calls, pcs, inVoice, voiceStatus>>
     \/ /\ ~pcs[hpc[u]].closed
        /\ calls' = [calls EXCEPT ![hcall[u]].offer = u]
        /\ pcs' = [MarkCall(pcs, hcall[u]) EXCEPT ![hpc[u]].sub = TRUE,
                                                  ![hpc[u]].dirty = TRUE]
        /\ inVoice' = [inVoice EXCEPT ![u] = TRUE]
        /\ voiceStatus' = [voiceStatus EXCEPT ![u] = "inVoice"]
  /\ HandlerDone(u)
  /\ UNCHANGED <<voice, voiceMembers, permVars, voiceCallId, callLocal, pcRef,
                 localStreamRef, answerWrites, lastReturn>>

\* joinAsCallee going on to getUserMedia without looking at the session it read.
joinAsCallee_unchecked(u) ==
  /\ at[u] = "calleeGet"
  /\ UNCHANGED voiceStatus
  /\ \/ /\ Acquire(u, hcall[u], "callee")
        /\ at' = [at EXCEPT ![u] = "calleeAnswer"]
        /\ UNCHANGED hcall
     \/ /\ HandlerDone(u)
        /\ UNCHANGED rtcVars
  /\ UNCHANGED <<storeVars, permVars, voiceCallId, inVoice, callLocal, answerWrites,
                 lastReturn>>

\* ------------------------------------------------------------------ joinAsCallee
\* getDoc(callDocRef) and the two early returns, then getUserMedia settles: the
\* stream and the connection are created, or the rejection ends the handler.
joinAsCallee(u) ==
  /\ at[u] = "calleeGet"
  /\ IF ~Exists(hcall[u])
       THEN /\ voiceStatus' = [voiceStatus EXCEPT ![u] = "notFound"]
            /\ HandlerDone(u)
            /\ UNCHANGED rtcVars
       ELSE IF calls[hcall[u]].offer = NoDesc
         THEN /\ voiceStatus' = [voiceStatus EXCEPT ![u] = "notReady"]
              /\ HandlerDone(u)
              /\ UNCHANGED rtcVars
         ELSE /\ UNCHANGED voiceStatus
              /\ \/ /\ Acquire(u, hcall[u], "callee")
                    /\ at' = [at EXCEPT ![u] = "calleeAnswer"]
                    /\ UNCHANGED hcall
                 \/ /\ HandlerDone(u)
                    /\ UNCHANGED rtcVars
  /\ UNCHANGED <<storeVars, permVars, voiceCallId, inVoice, callLocal, answerWrites,
                 lastReturn>>

\* setRemoteDescription(offer), createAnswer, setLocalDescription,
\* updateDoc({answer, status: "connected"}), then the two onSnapshot
\* registrations, setInVoice(true) and the status.  Any of the awaited
\* steps may reject, and setRemoteDescription does on a connection closed in
\* the meantime: the handler ends there, nothing catches the rejection.
joinAsCallee_answer(u) ==
  /\ at[u] = "calleeAnswer"
  /\ \/ /\ faults \/ pcs[hpc[u]].closed
        /\ UNCHANGED <<calls, answerWrites, pcs, audio, inVoice, voiceStatus>>
     \/ /\ ~pcs[hpc[u]].closed
        /\ calls' = [calls EXCEPT ![hcall[u]].answer = u,
                                  ![hcall[u]].status = "connected"]
        /\ answerWrites' = [answerWrites EXCEPT
                              ![hcall[u]] = IF @ < MaxWrites THEN @ + 1 ELSE @]
        /\ pcs' = [MarkCall(pcs, hcall[u]) EXCEPT ![hpc[u]].remote = TRUE,
                                                  ![hpc[u]].sub = TRUE,
                                                  ![hpc[u]].dirty = TRUE]
        /\ audio' = [audio EXCEPT ![u] = TRUE]
        /\ inVoice' = [inVoice EXCEPT ![u] = TRUE]
        /\ voiceStatus' = [voiceStatus EXCEPT ![u] = "inVoice"]
  /\ HandlerDone(u)
  /\ UNCHANGED <<voice, voiceMembers, pageVars, voiceCallId, callLocal, pcRef,
                 localStreamRef, lastReturn>>

\* ------------------------------------------------------------------ exitVoice
\* exitVoice as it would run if leaving also ended the session for the others:
\* the reference its frame is measured against.
exitVoice_endsSession(u) ==
  /\ page[u] = "voice" /\ at[u] = "idle" /\ inVoice[u]
  /\ user[u] # NoUser
  /\ voiceMembers' = voiceMembers \ {u}
  /\ calls' = IF Exists(voiceCallId[u])
                THEN [calls EXCEPT ![voiceCallId[u]].status = "ended"] ELSE calls
  /\ cleanupCall(u)
  /\ voiceStatus' = [voiceStatus EXCEPT ![u] = "exited"]
  /\ UNCHANGED <<voice, pageVars, voiceCallId, callLocal, handlerVars, answerWrites,
                 lastReturn>>

\* The button is disabled unless inVoice; deleteDoc(presence), cleanupCall, status.
exitVoice(u) ==
  /\ page[u] = "voice" /\ at[u] = "idle" /\ inVoice[u]
  /\ user[u] # NoUser
  /\ voiceMembers' = voiceMembers \ {u}
  /\ cleanupCall(u)
  /\ voiceStatus' = [voiceStatus EXCEPT ![u] = "exited"]
  /\ UNCHANGED <<calls, voice, pageVars, voiceCallId, callLocal, handlerVars, answerWrites,
                 lastReturn>>

\* ------------------------------------------------------------------ closeVoiceForAll
\* closeVoiceForAll as it would run without its role guard: the reference the
\* guard is measured against.
closeVoiceForAll_anyRole(u) ==
  /\ page[u] = "voice" /\ at[u] = "idle"
  /\ hcall' = [hcall EXCEPT ![u] = IF voice.exists THEN voice.callId ELSE NoCall]
  /\ at' = [at EXCEPT ![u] = IF voice.exists /\ voice.callId # NoCall
                               THEN "closeEnd" ELSE "closeReset"]
  /\ UNCHANGED <<storeVars, permVars, voiceLocal, callLocal, rtcVars, hpc, answerWrites,
                 lastReturn>>

\* The guard, then getDoc(voice/current).
closeVoiceForAll(u) ==
  /\ page[u] = "voice" /\ at[u] = "idle"
  /\ IF ~isAdmin(u)
       THEN /\ lastReturn' = <<"closeVoiceForAll", u>>
            /\ UNCHANGED <<at, hcall>>
       ELSE /\ hcall' = [hcall EXCEPT ![u] = IF voice.exists THEN voice.callId ELSE NoCall]
            /\ at' = [at EXCEPT ![u] = IF voice.exists /\ voice.callId # NoCall
                                         THEN "closeEnd" ELSE "closeReset"]
            /\ UNCHANGED lastReturn
  /\ UNCHANGED <<storeVars, permVars, voiceLocal, callLocal, rtcVars, hpc, answerWrites>>

\* updateDoc(calls/{data.callId}, {status: "ended"}).
closeVoiceForAll_end(u) ==
  /\ at[u] = "closeEnd"
  /\ calls' = [calls EXCEPT ![hcall[u]].status = "ended"]
  /\ pcs' = MarkCall(pcs, hcall[u])
  /\ at' = [at EXCEPT ![u] = "closeReset"]
  /\ UNCHANGED <<voice, voiceMembers, permVars, voiceLocal, callLocal, pcRef,
                 localStreamRef, hcall, hpc, answerWrites, lastReturn>>

\* setDoc(voiceRef, {callId: null}, merge), setVoiceCallId(null), status.
closeVoiceForAll_reset(u) ==
  /\ at[u] = "closeReset"
  /\ voice' = [exists |-> TRUE, callId |-> NoCall]
  /\ voiceCallId' = VoiceCallIdSeen(voice')
  /\ voiceStatus' = [VoiceStatusSeen(voice') EXCEPT ![u] = "closedForAll"]
  /\ HandlerDone(u)
  /\ UNCHANGED <<calls, voiceMembers, permVars, inVoice, callLocal, rtcVars, answerWrites,
                 lastReturn>>

\* ------------------------------------------------------------------ calls/{callId} subscription
\* The `status === "ended"` branch of a snapshot callback: the status line and
\* cleanupCall, acting on whatever the owner's refs hold now; A is the state
\* of the audio elements when the branch is reached.
OnEnded(u, P, A) ==
  /\ pcs' = CleanupPcs(P, u)
  /\ pcRef' = [pcRef EXCEPT ![u] = NoPc]
  /\ localStreamRef' = [localStreamRef EXCEPT ![u] = NoPc]
  /\ IF page[u] = "voice"
       THEN /\ audio' = [A EXCEPT ![u] = FALSE]
            /\ inVoice' = [inVoice EXCEPT ![u] = FALSE]
            /\ voiceStatus' = [voiceStatus EXCEPT ![u] = "closed"]
            /\ UNCHANGED callStatus
       ELSE /\ audio' = A
            /\ callStatus' = [callStatus EXCEPT ![u] = "closed"]
            /\ UNCHANGED <<inVoice, voiceStatus>>

\* A snapshot of calls/{callId} reaches the callback registered with connection i.
\* The caller's callback starts setRemoteDescription(answer) when the connection
\* has no currentRemoteDescription yet and awaits it before looking at status;
\* the callee's callback of the voice page only looks at status.
\* An invocation queued behind MaxApply earlier ones is not recorded: it can
\* only reject (the first one resolved, or the connection is closed), and a
\* rejected invocation does nothing more.
OnCallSnapshot(i) ==
  /\ pcs[i].sub /\ pcs[i].dirty
  /\ LET p == pcs[i]
         data == calls[p.call]
         P0 == [pcs EXCEPT ![i].dirty = FALSE]
     IN IF p.role = "caller" /\ ~p.remote /\ data.answer # NoDesc
          THEN /\ pcs' = IF p.applyCalls < MaxApply
                           THEN [P0 EXCEPT ![i].applyCalls = @ + 1,
                                           ![i].cb = Append(@, data.status = "ended")]
                           ELSE P0
               /\ UNCHANGED <<pcRef, localStreamRef, audio, inVoice, voiceStatus, callStatus>>
          ELSE IF data.status = "ended"
            THEN OnEnded(p.owner, P0, audio)
            ELSE /\ pcs' = P0
                 /\ UNCHANGED <<pcRef, localStreamRef, audio, inVoice, voiceStatus,
                                callStatus>>
  /\ UNCHANGED <<storeVars, pageVars, voiceCallId, callId, handlerVars, answerWrites,
                 lastReturn>>

\* The subscription delivers the snapshot it delivered last once more, while a
\* setRemoteDescription(answer) started by the callback is still pending.
DuplicateSnapshot(i) ==
  /\ pcs[i].sub /\ ~pcs[i].dirty
  /\ pcs[i].cb # <<>> /\ pcs[i].applyCalls < MaxApply
  /\ pcs' = [pcs EXCEPT ![i].dirty = TRUE]
  /\ UNCHANGED <<storeVars, permVars, voiceLocal, callLocal, pcRef, localStreamRef,
                 handlerVars, answerWrites, lastReturn>>

\* The oldest pending setRemoteDescription(answer) of connection i settles.  It
\* resolves on an open connection that has no remote description yet and
\* rejects otherwise (closed, or already stable); a rejection ends that
\* callback invocation before its status check.
SetRemoteSettles(i) ==
  /\ pcs[i].cb # <<>>
  /\ LET p == pcs[i]
         u == p.owner
         P0 == [pcs EXCEPT ![i].cb = Tail(@)]
         P1 == [P0 EXCEPT ![i].remote = TRUE]
     IN IF p.closed \/ p.remote
          THEN /\ pcs' = P0
               /\ UNCHANGED <<pcRef, localStreamRef, audio, inVoice, voiceStatus, callStatus>>
          ELSE IF Head(p.cb)
            THEN OnEnded(u, P1, [audio EXCEPT ![u] = TRUE])
            ELSE /\ pcs' = P1
                 /\ audio' = [audio EXCEPT ![u] = TRUE]
                 /\ IF page[u] = "voice"
                      THEN /\ voiceStatus' = [voiceStatus EXCEPT ![u] = "connected"]
                           /\ UNCHANGED callStatus
                      ELSE /\ callStatus' = [callStatus EXCEPT ![u] = "connected"]
                           /\ UNCHANGED voiceStatus
                 /\ UNCHANGED <<pcRef, localStreamRef, inVoice>>
  /\ UNCHANGED <<storeVars, pageVars, voiceCallId, callId, handlerVars, answerWrites,
                 lastReturn>>

\* ------------------------------------------------------------------ call page (standalone flow)
\* The page is opened from a shared link: callId starts as the link's call id.
OpenCallLink(u, c) ==
  /\ page[u] = "call" /\ at[u] = "idle"
  /\ callId[u] = NoCall
  /\ \A i \in PcIds : pcs[i].owner # u
  /\ callId' = [callId EXCEPT ![u] = c]
  /\ UNCHANGED <<storeVars, permVars, voiceLocal, callStatus, rtcVars, handlerVars,
                 answerWrites, lastReturn>>

\* The guards, then getUserMedia settles: the stream and the connection are
\* created, or the rejection ends the handler where it stands.
createCall(u) ==
  /\ page[u] = "call" /\ at[u] = "idle"
  /\ IF user[u] = NoUser
       THEN /\ lastReturn' = <<"createCall", u>>
            /\ UNCHANGED <<callStatus, at, hpc, rtcVars>>
       ELSE IF ~effectiveCanCall(u)
         THEN /\ callStatus' = [callStatus EXCEPT ![u] = "noPermission"]
              /\ UNCHANGED <<at, hpc, lastReturn, rtcVars>>
         ELSE /\ callStatus' = [callStatus EXCEPT ![u] = "creating"]
              /\ UNCHANGED lastReturn
              /\ \/ /\ Acquire(u, NoCall, "caller")
                    /\ at' = [at EXCEPT ![u] = "createAddDoc"]
                 \/ UNCHANGED <<at, hpc, rtcVars>>
  /\ UNCHANGED <<storeVars, permVars, voiceLocal, callId, hcall, answerWrites>>

\* addDoc(calls, {status: "open", ...}) and setCallId(callDocRef.id).
createCall_addDoc(u) ==
  /\ at[u] = "createAddDoc"
  /\ NextCallId <= MaxCalls
  /\ calls' = [calls EXCEPT ![NextCallId] = NewCallDoc(u)]
  /\ callId' = [callId EXCEPT ![u] = NextCallId]
  /\ hcall' = [hcall EXCEPT ![u] = NextCallId]
  /\ pcs' = [pcs EXCEPT ![hpc[u]].call = NextCallId]
  /\ at' = [at EXCEPT ![u] = "createOffer"]
  /\ UNCHANGED <<voice, voiceMembers, permVars, voiceLocal, callStatus, pcRef,
                 localStreamRef, hpc, answerWrites, lastReturn>>

\* createOffer, setLocalDescription, updateDoc({offer}), the status line, then
\* both onSnapshot registrations.  Any of the awaited steps may reject, and
\* createOffer does on a connection closed in the meantime: the handler ends
\* there, nothing catches the rejection.
createCall_offer(u) ==
  /\ at[u] = "createOffer"
  /\ \/ /\ faults \/ pcs[hpc[u]].closed
        /\ pcs' = Collect(pcs, [hpc EXCEPT ![u] = NoPc])
        /\ UNCHANGED <<calls, callStatus>>
     \/ /\ ~pcs[hpc[u]].closed
        /\ calls' = [calls EXCEPT ![hcall[u]].offer = u]
        /\ pcs' = [MarkCall(pcs, hcall[u]) EXCEPT ![hpc[u]].sub = TRUE,
                                                  ![hpc[u]].dirty = TRUE]
        /\ callStatus' = [callStatus EXCEPT ![u] = "created"]
  /\ HandlerDone(u)
  /\ UNCHANGED <<voice, voiceMembers, permVars, voiceLocal, callId, pcRef, localStreamRef,
                 answerWrites, lastReturn>>

\* joinCall going on to getUserMedia without looking at the offer of the
\* session it read.
joinCall_unchecked(u) ==
  /\ page[u] = "call" /\ at[u] = "idle"
  /\ ~(user[u] # NoUser /\ effectiveCanCall(u) /\ callId[u] = NoCall)
  /\ IF user[u] = NoUser
       THEN /\ lastReturn' = <<"joinCall", u>>
            /\ UNCHANGED <<callStatus, handlerVars, rtcVars>>
       ELSE IF ~effectiveCanCall(u)
         THEN /\ callStatus' = [callStatus EXCEPT ![u] = "noPermission"]
              /\ UNCHANGED <<handlerVars, lastReturn, rtcVars>>
         ELSE /\ UNCHANGED lastReturn
              /\ IF ~Exists(callId[u])
                   THEN /\ callStatus' = [callStatus EXCEPT ![u] = "notFound"]
                        /\ UNCHANGED <<handlerVars, rtcVars>>
                   ELSE /\ callStatus' = [callStatus EXCEPT ![u] = "joining"]
                        /\ \/ /\ Acquire(u, callId[u], "callee")
                              /\ hcall' = [hcall EXCEPT ![u] = callId[u]]
                              /\ at' = [at EXCEPT ![u] = "joinAnswer"]
                           \/ UNCHANGED <<handlerVars, rtcVars>>
  /\ UNCHANGED <<storeVars, permVars, voiceLocal, callId, answerWrites>>

\* The guards, getDoc(callDocRef) and the two early returns, then getUserMedia
\* settles: the stream and the connection are created, or the rejection ends
\* the handler where it stands.  With the capability and no callId the handler
\* returns at `if (!callId) return` and nothing changes: no step.
joinCall(u) ==
  /\ page[u] = "call" /\ at[u] = "idle"
  /\ ~(user[u] # NoUser /\ effectiveCanCall(u) /\ callId[u] = NoCall)
  /\ IF user[u] = NoUser
       THEN /\ lastReturn' = <<"joinCall", u>>
            /\ UNCHANGED <<callStatus, handlerVars, rtcVars>>
       ELSE IF ~effectiveCanCall(u)
         THEN /\ callStatus' = [callStatus EXCEPT ![u] = "noPermission"]
              /\ UNCHANGED <<handlerVars, lastReturn, rtcVars>>
         ELSE /\ UNCHANGED lastReturn
              /\ IF ~Exists(callId[u])
                   THEN /\ callStatus' = [callStatus EXCEPT ![u] = "notFound"]
                        /\ UNCHANGED <<handlerVars, rtcVars>>
                   ELSE IF calls[callId[u]].offer = NoDesc
                     THEN /\ callStatus' = [callStatus EXCEPT ![u] = "notReady"]
                          /\ UNCHANGED <<handlerVars, rtcVars>>
                     ELSE /\ callStatus' = [callStatus EXCEPT ![u] = "joining"]
                          /\ \/ /\ Acquire(u, callId[u], "callee")
                                /\ hcall' = [hcall EXCEPT ![u] = callId[u]]
                                /\ at' = [at EXCEPT ![u] = "joinAnswer"]
                             \/ UNCHANGED <<handlerVars, rtcVars>>
  /\ UNCHANGED <<storeVars, permVars, voiceLocal, callId, answerWrites>>

\* setRemoteDescription(offer), createAnswer, setLocalDescription,
\* updateDoc({answer, status: "connected"}) and the status line.  The call page
\* registers no subscription to calls/{callId} on the callee side.  Any of the
\* awaited steps may reject, and setRemoteDescription does on a connection
\* closed in the meantime: the handler ends there, nothing catches the
\* rejection.
joinCall_answer(u) ==
  /\ at[u] = "joinAnswer"
  /\ \/ /\ faults \/ pcs[hpc[u]].closed
        /\ pcs' = Collect(pcs, [hpc EXCEPT ![u] = NoPc])
        /\ UNCHANGED <<calls, answerWrites, audio, callStatus>>
     \/ /\ ~pcs[hpc[u]].closed
        /\ calls' = [calls EXCEPT ![hcall[u]].answer = u,
                                  ![hcall[u]].status = "connected"]
        /\ answerWrites' = [answerWrites EXCEPT
                              ![hcall[u]] = IF @ < MaxWrites THEN @ + 1 ELSE @]
        /\ pcs' = [MarkCall(pcs, hcall[u]) EXCEPT ![hpc[u]].remote = TRUE]
        /\ audio' = [audio EXCEPT ![u] = TRUE]
        /\ callStatus' = [callStatus EXCEPT ![u] = "connected"]
  /\ HandlerDone(u)
  /\ UNCHANGED <<voice, voiceMembers, pageVars, voiceLocal, callId, pcRef, localStreamRef,
                 lastReturn>>

\* cleanupCall of the call page: close, stop, clear both refs, status line.
cleanupCall_standalone(u, P) ==
  /\ pcs' = CleanupPcs(P, u)
  /\ pcRef' = [pcRef EXCEPT ![u] = NoPc]
  /\ localStreamRef' = [localStreamRef EXCEPT ![u] = NoPc]
  /\ callStatus' = [callStatus EXCEPT ![u] = "closed"]

\* hangUp giving up when the write of "ended" does not go through.
hangUp_stopsOnError(u) ==
  /\ page[u] = "call" /\ at[u] = "idle"
  /\ callId[u] # NoCall \/ pcRef[u] # NoPc
  /\ \/ /\ Exists(callId[u])
        /\ calls' = [calls EXCEPT ![callId[u]].status = "ended"]
        /\ cleanupCall_standalone(u, MarkCall(pcs, callId[u]))
     \/ /\ faults \/ ~Exists(callId[u])
        /\ callStatus' = [callStatus EXCEPT ![u] = "closed"]
        /\ UNCHANGED <<calls, rtcVars>>
  /\ UNCHANGED <<voice, voiceMembers, permVars, voiceLocal, callId, handlerVars,
                 answerWrites, lastReturn>>

\* The button is disabled when there is neither a callId nor a connection.
\* updateDoc({status: "ended"}) throws on a missing document, and may be
\* rejected otherwise; the rejection is caught and the teardown runs all the same.
hangUp(u) ==
  /\ page[u] = "call" /\ at[u] = "idle"
  /\ callId[u] # NoCall \/ pcRef[u] # NoPc
  /\ \/ /\ Exists(callId[u])
        /\ calls' = [calls EXCEPT ![callId[u]].status = "ended"]
        /\ cleanupCall_standalone(u, MarkCall(pcs, callId[u]))
     \/ /\ faults \/ ~Exists(callId[u])
        /\ UNCHANGED calls
        /\ cleanupCall_standalone(u, pcs)
  /\ UNCHANGED <<voice, voiceMembers, permVars, voiceLocal, callId, handlerVars,
                 answerWrites, lastReturn>>

\* ------------------------------------------------------------------ specification
Next ==
  \/ \E u \in Users :
       \/ enterVoice(u)
       \/ ensureVoiceStateDoc(u)
       \/ enterVoice_read(u)
       \/ enterVoice_claim(u)
       \/ enterVoice_claimed(u)
       \/ startAsCaller(u)
       \/ joinAsCallee(u)
       \/ joinAsCallee_answer(u)
       \/ exitVoice(u)
       \/ closeVoiceForAll(u)
       \/ closeVoiceForAll_end(u)
       \/ closeVoiceForAll_reset(u)
       \/ createCall(u)
       \/ createCall_addDoc(u)
       \/ createCall_offer(u)
       \/ joinCall(u)
       \/ joinCall_answer(u)
       \/ hangUp(u)
       \/ \E c \in CallIds : OpenCallLink(u, c)
  \/ \E i \in PcIds :
       \/ OnCallSnapshot(i)
       \/ DuplicateSnapshot(i)
       \/ SetRemoteSettles(i)

Spec == Init /\ [][Next]_vars

\* The same clients and the same steps in an environment where an awaited
\* step (createOffer, setRemoteDescription, a store write) may reject on a
\* live connection.  Every client is signed in and may call; the admin has
\* the voice page open, the member the call page.
InitFail ==
  /\ calls = [c \in CallIds |-> AbsentCall]
  /\ voice = [exists |-> FALSE, callId |-> NoCall]
  /\ voiceMembers = {}
  /\ page = [u \in Users |-> IF u = adminUid THEN "voice" ELSE "call"]
  /\ user = [u \in Users |-> u]
  /\ room = [u \in Users |-> RoomOpen]
  /\ myRole = [u \in Users |-> IF u = adminUid THEN "admin" ELSE "member"]
  /\ myOverrides = [u \in Users |-> [canChat |-> "unset", canCall |-> "unset"]]
  /\ loadData = [u \in Users |-> NoRoom]
  /\ faults = TRUE
  /\ cand = [c \in CallIds |-> [offer |-> <<>>, answer |-> <<>>]]
  /\ iceLog = [i \in PcIds |-> <<>>]
  /\ roomDoc = [lockChat |-> "false", lockCalls |-> "false",
                defaultCanChat |-> "true", defaultCanCall |-> "true"]
  /\ members = [u \in Users |->
                  [exists |-> TRUE, role |-> IF u = adminUid THEN "admin" ELSE "member",
                   canChat |-> "unset", canCall |-> "unset"]]
  /\ voiceCallId = [u \in Users |-> NoCall]
  /\ inVoice = [u \in Users |-> FALSE]
  /\ voiceStatus = [u \in Users |-> "inactive"]
  /\ callId = [u \in Users |-> NoCall]
  /\ callStatus = [u \in Users |-> "none"]
  /\ pcRef = [u \in Users |-> NoPc]
  /\ localStreamRef = [u \in Users |-> NoPc]
  /\ audio = [u \in Users |-> FALSE]
  /\ pcs = [i \in PcIds |-> FreePc]
  /\ at = [u \in Users |-> "idle"]
  /\ hcall = [u \in Users |-> NoCall]
  /\ hpc = [u \in Users |-> NoPc]
  /\ answerWrites = [c \in CallIds |-> 0]
  /\ lastReturn = <<"none", NoUser>>

SpecFail == InitFail /\ [][Next]_vars

\* ================================================================== room settings and members
\* The four settings of rooms/{roomId} and the two overrides of a member
\* document are "true", "false" or "unset" (the field is absent); an override
\* the admin has reset is "null".
Tri == {"true", "false", "unset"}
Settings == {"defaultCanChat", "defaultCanCall", "lockChat", "lockCalls"}
Not(b) == IF b = "true" THEN "false" ELSE "true"
OrElse(v, d) == IF v \in {"true", "false"} THEN v ELSE d

AbsentMember == [exists |-> FALSE, role |-> "none", canChat |-> "unset", canCall |-> "unset"]

\* The patch of the room-load effect: every setting that is not a boolean gets
\* its default.
Backfilled(D) ==
  [lockChat |-> OrElse(D.lockChat, "false"), lockCalls |-> OrElse(D.lockCalls, "false"),
   defaultCanChat |-> OrElse(D.defaultCanChat, "true"),
   defaultCanCall |-> OrElse(D.defaultCanCall, "true")]

\* setRoom(snap.data())
RoomSeen(D) ==
  [loaded |-> TRUE, lockChat |-> D.lockChat, lockCalls |-> D.lockCalls,
   defaultCanChat |-> D.defaultCanChat, defaultCanCall |-> D.defaultCanCall]

\* What the members subscription stores for client u from the collection M.
RoleSeen(M, u) == IF user[u] = NoUser \/ ~M[u].exists THEN "none" ELSE M[u].role
OverridesSeen(M, u) ==
  IF user[u] = NoUser \/ ~M[u].exists
    THEN [canChat |-> "unset", canCall |-> "unset"]
    ELSE [canChat |-> M[u].canChat, canCall |-> M[u].canCall]

callVars ==
  <<storeVars, voiceLocal, callLocal, rtcVars, audio, hcall, hpc, answerWrites, lastReturn,
    faults, iceVars>>

\* The room documents a client can find: a room that predates the settings,
\* or one with its four settings stored.
RoomDocs0 ==
  {[lockChat |-> "unset", lockCalls |-> "unset",
    defaultCanChat |-> "unset", defaultCanCall |-> "unset"]} \cup
  [lockChat : {"true", "false"}, lockCalls : {"true", "false"},
   defaultCanChat : {"true", "false"}, defaultCanCall : {"true", "false"}]

\* The member documents a client can find, drawn from the Member type: none,
\* or one with the role the upsert gives that user and any pair of overrides
\* (the admin's overrides equal).
MemberDocs0(u) ==
  {AbsentMember} \cup
  (IF u = adminUid
     THEN {[exists |-> TRUE, role |-> "admin", canChat |-> o, canCall |-> o] : o \in Tri}
     ELSE [exists : {TRUE}, role : {"member"}, canChat : Tri, canCall : Tri])

\* Every client has just opened the room: the members subscription has
\* delivered, the room has not arrived yet and the room-load effect is about
\* to run.  The admin is signed in.
InitPerm ==
  /\ calls = [c \in CallIds |-> AbsentCall]
  /\ voice = [exists |-> FALSE, callId |-> NoCall]
  /\ voiceMembers = {}
  /\ page \in [Users -> {"voice", "call"}]
  /\ user \in {f \in [Users -> Users \cup {NoUser}] :
                 f[adminUid] = adminUid /\ \A u \in Users : f[u] \in {u, NoUser}}
  /\ roomDoc \in RoomDocs0
  /\ members \in {f \in [Users -> UNION {MemberDocs0(u) : u \in Users}] :
                    \A u \in Users : f[u] \in MemberDocs0(u)}
  /\ room = [u \in Users |-> NoRoom]
  /\ myRole = [u \in Users |-> RoleSeen(members, u)]
  /\ myOverrides = [u \in Users |-> OverridesSeen(members, u)]
  /\ loadData = [u \in Users |-> NoRoom]
  /\ faults = FALSE
  /\ cand = [c \in CallIds |-> [offer |-> <<>>, answer |-> <<>>]]
  /\ iceLog = [i \in PcIds |-> <<>>]
  /\ voiceCallId = [u \in Users |-> NoCall]
  /\ inVoice = [u \in Users |-> FALSE]
  /\ voiceStatus = [u \in Users |-> "inactive"]
  /\ callId = [u \in Users |-> NoCall]
  /\ callStatus = [u \in Users |-> "none"]
  /\ pcRef = [u \in Users |-> NoPc]
  /\ localStreamRef = [u \in Users |-> NoPc]
  /\ audio = [u \in Users |-> FALSE]
  /\ pcs = [i \in PcIds |-> FreePc]
  /\ at = [u \in Users |-> "load"]
  /\ hcall = [u \in Users |-> NoCall]
  /\ hpc = [u \in Users |-> NoPc]
  /\ answerWrites = [c \in CallIds |-> 0]
  /\ lastReturn = <<"none", NoUser>>

\* The onSnapshot callbacks run with the write that raises them, as for
\* voice/current, on every page: setRoom for the room document D; setMyRole
\* and setMyOverrides for the members collection M.
WriteRoom(D) ==
  /\ roomDoc' = D
  /\ room' = [u \in Users |-> RoomSeen(D)]

WriteMembers(M) ==
  /\ members' = M
  /\ myRole' = [u \in Users |-> RoleSeen(M, u)]
  /\ myOverrides' = [u \in Users |-> OverridesSeen(M, u)]

\* The client opens the room again, on page p: useState(null) for the room,
\* the members subscription delivers what is stored, and the room-load effect
\* is about to run.
enterRoom(u, p) ==
  /\ at[u] = "idle"
  /\ page' = [page EXCEPT ![u] = p]
  /\ room' = [room EXCEPT ![u] = NoRoom]
  /\ at' = [at EXCEPT ![u] = "load"]
  /\ UNCHANGED <<user, myRole, myOverrides, loadData, roomDoc, members, callVars>>

\* The first snapshot of the room subscription, when it arrives before any
\* write of the room.
OnRoomSnapshot(u) ==
  /\ ~room[u].loaded
  /\ room' = [room EXCEPT ![u] = RoomSeen(roomDoc)]
  /\ UNCHANGED <<page, user, myRole, myOverrides, loadData, roomDoc, members, at, callVars>>

\* The member upsert of the standalone call page: setDoc(..., {merge: true})
\* with uid, name, role and joinedAt.
upsert_call(M, u, data) ==
  [M EXCEPT ![u].exists = TRUE,
            ![u].role = IF u = adminUid THEN "admin" ELSE "member"]

\* The member upsert of the voice page: the same, with canChat and canCall
\* taken from the room data the effect holds.
upsert_voice(M, u, data) ==
  [M EXCEPT ![u] =
     [exists |-> TRUE,
      role |-> IF u = adminUid THEN "admin" ELSE "member",
      canChat |-> IF u = adminUid THEN "true" ELSE OrElse(data.defaultCanChat, "true"),
      canCall |-> IF u = adminUid THEN "true" ELSE OrElse(data.defaultCanCall, "true")]]

\* The default the room-load effect and the settings card use for a setting.
DefaultOf(key) == IF key \in {"defaultCanChat", "defaultCanCall"} THEN "true" ELSE "false"

\* The keys of the patch the effect builds from the data it read.
PatchKeys(data0) == {key \in Settings : data0[key] \notin {"true", "false"}}

\* updateDoc(rooms/{roomId}, patch): the fields of the patch are written, the
\* others stay as they are stored.
Patched(D, keys) ==
  [lockChat |-> IF "lockChat" \in keys THEN DefaultOf("lockChat") ELSE D.lockChat,
   lockCalls |-> IF "lockCalls" \in keys THEN DefaultOf("lockCalls") ELSE D.lockCalls,
   defaultCanChat |-> IF "defaultCanChat" \in keys THEN DefaultOf("defaultCanChat")
                                                   ELSE D.defaultCanChat,
   defaultCanCall |-> IF "defaultCanCall" \in keys THEN DefaultOf("defaultCanCall")
                                                   ELSE D.defaultCanCall]

\* The room-load effect when nothing happens between its read and its writes:
\* read the room, store the defaults of the settings it lacks, setRoom, and,
\* signed in, upsert the own member document.
loadRoom(u) ==
  /\ at[u] = "load"
  /\ WriteRoom(Backfilled(roomDoc))
  /\ IF user[u] = NoUser
       THEN UNCHANGED <<members, myRole, myOverrides>>
       ELSE WriteMembers(IF page[u] = "voice"
                           THEN upsert_voice(members, u, Backfilled(roomDoc))
                           ELSE upsert_call(members, u, Backfilled(roomDoc)))
  /\ at' = [at EXCEPT ![u] = "idle"]
  /\ UNCHANGED <<page, user, loadData, callVars>>

\* A switch of the settings card, which only the admin's page shows: the
\* setting becomes the opposite of what the page shows for it.
updateRoomSetting(u, key) ==
  /\ isAdmin(u)
  /\ WriteRoom([roomDoc EXCEPT ![key] =
                  Not(OrElse(room[u][key], DefaultOf(key)))])
  /\ UNCHANGED <<page, user, myRole, myOverrides, loadData, members, at, callVars>>

\* The three buttons of a member row m on the admin's call page.
onClickChat(u, m) ==
  /\ page[u] = "call" /\ isAdmin(u)
  /\ members[m].exists /\ members[m].role # "admin"
  /\ WriteMembers([members EXCEPT ![m].canChat =
                     IF members[m].canChat \in {"true", "false"}
                       THEN Not(members[m].canChat) ELSE "false"])
  /\ UNCHANGED <<page, user, room, loadData, roomDoc, at, callVars>>

onClickCall(u, m) ==
  /\ page[u] = "call" /\ isAdmin(u)
  /\ members[m].exists /\ members[m].role # "admin"
  /\ WriteMembers([members EXCEPT ![m].canCall =
                     IF members[m].canCall \in {"true", "false"}
                       THEN Not(members[m].canCall) ELSE "false"])
  /\ UNCHANGED <<page, user, room, loadData, roomDoc, at, callVars>>

\* The reset button writing false where the code writes null.
onClickReset_off(u, m) ==
  /\ page[u] = "call" /\ isAdmin(u)
  /\ members[m].exists /\ members[m].role # "admin"
  /\ WriteMembers([members EXCEPT ![m].canChat = "false", ![m].canCall = "false"])
  /\ UNCHANGED <<page, user, room, loadData, roomDoc, at, callVars>>

onClickReset(u, m) ==
  /\ page[u] = "call" /\ isAdmin(u)
  /\ members[m].exists /\ members[m].role # "admin"
  /\ WriteMembers([members EXCEPT ![m].canChat = "null", ![m].canCall = "null"])
  /\ UNCHANGED <<page, user, room, loadData, roomDoc, at, callVars>>

NextPerm ==
  \/ \E u \in Users :
       \/ \E p \in {"voice", "call"} : enterRoom(u, p)
       \/ OnRoomSnapshot(u)
       \/ loadRoom(u)
       \/ \E key \in Settings : updateRoomSetting(u, key)
       \/ \E m \in Users :
            \/ onClickChat(u, m)
            \/ onClickCall(u, m)
            \/ onClickReset(u, m)

SpecPerm == InitPerm /\ [][NextPerm]_vars

\* ================================================================== the room-load effect, step by step
\* The effect with its awaits as separate steps, so that writes of other
\* clients come between them.  First step: getDoc(rooms/{roomId}).
loadRoom_read(u) ==
  /\ at[u] = "load"
  /\ loadData' = [loadData EXCEPT ![u] = RoomSeen(roomDoc)]
  /\ at' = [at EXCEPT ![u] = "patch"]
  /\ UNCHANGED <<page, user, room, myRole, myOverrides, roomDoc, members, callVars>>

\* After the read: the patch with the defaults of the settings the data read
\* lacks is written when it is not empty (the room subscription of every page
\* delivers the written document), then setRoom({...data0, ...patch}) and,
\* signed in, the upsert of the own member document.
loadRoom_patch(u) ==
  /\ at[u] = "patch"
  /\ LET keys == PatchKeys(loadData[u])
         D == Patched(roomDoc, keys)
         data == Backfilled(loadData[u])
     IN /\ roomDoc' = D
        /\ room' = [v \in Users |->
                      IF v = u THEN RoomSeen(data)
                      ELSE IF keys # {} THEN RoomSeen(D) ELSE room[v]]
        /\ IF user[u] = NoUser
             THEN UNCHANGED <<members, myRole, myOverrides>>
             ELSE WriteMembers(IF page[u] = "voice"
                                 THEN upsert_voice(members, u, data)
                                 ELSE upsert_call(members, u, data))
  /\ loadData' = [loadData EXCEPT ![u] = NoRoom]
  /\ at' = [at EXCEPT ![u] = "idle"]
  /\ UNCHANGED <<page, user, callVars>>

\* Every client has just opened the room, the admin on the voice page and the
\* member on the call page; both have a member document without overrides.
InitLoad ==
  /\ calls = [c \in CallIds |-> AbsentCall]
  /\ voice = [exists |-> FALSE, callId |-> NoCall]
  /\ voiceMembers = {}
  /\ page = [u \in Users |-> IF u = adminUid THEN "voice" ELSE "call"]
  /\ user \in {f \in [Users -> Users \cup {NoUser}] :
                 f[adminUid] = adminUid /\ \A u \in Users : f[u] \in {u, NoUser}}
  /\ roomDoc \in RoomDocs0
  /\ members = [u \in Users |->
                  [exists |-> TRUE, role |-> IF u = adminUid THEN "admin" ELSE "member",
                   canChat |-> "unset", canCall |-> "unset"]]
  /\ room = [u \in Users |-> NoRoom]
  /\ myRole = [u \in Users |-> RoleSeen(members, u)]
  /\ myOverrides = [u \in Users |-> OverridesSeen(members, u)]
  /\ loadData = [u \in Users |-> NoRoom]
  /\ faults = FALSE
  /\ cand = [c \in CallIds |-> [offer |-> <<>>, answer |-> <<>>]]
  /\ iceLog = [i \in PcIds |-> <<>>]
  /\ voiceCallId = [u \in Users |-> NoCall]
  /\ inVoice = [u \in Users |-> FALSE]
  /\ voiceStatus = [u \in Users |-> "inactive"]
  /\ callId = [u \in Users |-> NoCall]
  /\ callStatus = [u \in Users |-> "none"]
  /\ pcRef = [u \in Users |-> NoPc]
  /\ localStreamRef = [u \in Users |-> NoPc]
  /\ audio = [u \in Users |-> FALSE]
  /\ pcs = [i \in PcIds |-> FreePc]
  /\ at = [u \in Users |-> "load"]
  /\ hcall = [u \in Users |-> NoCall]
  /\ hpc = [u \in Users |-> NoPc]
  /\ answerWrites = [c \in CallIds |-> 0]
  /\ lastReturn = <<"none", NoUser>>

NextLoad ==
  \E u \in Users :
    \/ enterRoom(u, page[u])
    \/ OnRoomSnapshot(u)
    \/ loadRoom_read(u)
    \/ loadRoom_patch(u)
    \/ \E key \in Settings : updateRoomSetting(u, key)

SpecLoad == InitLoad /\ [][NextLoad]_vars

\* ================================================================== ICE candidates
\* The sub-collection a connection of role r adds its candidates to, and the
\* one it listens to.
Written(r) == IF r = "caller" THEN "offer" ELSE "answer"
Listened(r) == IF r = "caller" THEN "answer" ELSE "offer"

\* A voice session just answered: the admin entered an empty channel as
\* caller, the member joined as callee and has written its answer, whose
\* snapshot the caller has not processed yet; no candidate has been added.
InitIce ==
  /\ calls = [c \in CallIds |->
                IF c = 1 THEN [status |-> "connected", createdByUid |-> "u1",
                               offer |-> "u1", answer |-> "u2"]
                         ELSE AbsentCall]
  /\ voice = [exists |-> TRUE, callId |-> 1]
  /\ voiceMembers = Users
  /\ page = [u \in Users |-> "voice"]
  /\ user = [u \in Users |-> u]
  /\ room = [u \in Users |-> IF u = adminUid THEN RoomLocked ELSE RoomOpen]
  /\ myRole = [u \in Users |-> IF u = adminUid THEN "admin" ELSE "member"]
  /\ myOverrides = [u \in Users |-> [canChat |-> "unset", canCall |-> "unset"]]
  /\ loadData = [u \in Users |-> NoRoom]
  /\ faults = FALSE
  /\ cand = [c \in CallIds |-> [offer |-> <<>>, answer |-> <<>>]]
  /\ iceLog = [i \in PcIds |-> <<>>]
  /\ roomDoc = [lockChat |-> "false", lockCalls |-> "true",
                defaultCanChat |-> "true", defaultCanCall |-> "true"]
  /\ members = [u \in Users |->
                  [exists |-> TRUE, role |-> IF u = adminUid THEN "admin" ELSE "member",
                   canChat |-> "unset", canCall |-> "unset"]]
  /\ voiceCallId = [u \in Users |-> 1]
  /\ inVoice = [u \in Users |-> TRUE]
  /\ voiceStatus = [u \in Users |-> "inVoice"]
  /\ callId = [u \in Users |-> NoCall]
  /\ callStatus = [u \in Users |-> "none"]
  /\ pcRef = [u \in Users |-> IF u = "u1" THEN 1 ELSE 2]
  /\ localStreamRef = [u \in Users |-> IF u = "u1" THEN 1 ELSE 2]
  /\ audio = [u \in Users |-> u = "u2"]
  /\ pcs = [i \in PcIds |->
              IF i = 1 THEN [NewPc("u1", 1, "caller") EXCEPT !.sub = TRUE, !.dirty = TRUE]
              ELSE IF i = 2 THEN [NewPc("u2", 1, "callee") EXCEPT
                                    !.remote = TRUE, !.sub = TRUE, !.dirty = TRUE]
              ELSE FreePc]
  /\ at = [u \in Users |-> "idle"]
  /\ hcall = [u \in Users |-> NoCall]
  /\ hpc = [u \in Users |-> NoPc]
  /\ answerWrites = [c \in CallIds |-> IF c = 1 THEN 1 ELSE 0]
  /\ lastReturn = <<"none", NoUser>>

\* pc.onicecandidate with a candidate: addDoc to the sub-collection of the
\* connection's role.  k says whether the peer will be able to use it.
onicecandidate(i, k) ==
  /\ pcs[i].owner # NoUser /\ pcs[i].call # NoCall /\ ~pcs[i].closed
  /\ Len(cand[pcs[i].call][Written(pcs[i].role)]) < MaxCand
  /\ cand' = [cand EXCEPT ![pcs[i].call][Written(pcs[i].role)] = Append(@, k)]
  /\ UNCHANGED <<storeVars, page, user, room, myRole, myOverrides, loadData, roomDoc, members,
                 faults, audio,
                 iceLog, voiceLocal, callLocal, rtcVars, handlerVars, answerWrites,
                 lastReturn>>

\* The candidates callback without its try/catch around a teardown: a
\* candidate that cannot be added ends the owner's session locally.
OnCandidateAdded_fatal(j) ==
  /\ pcs[j].owner # NoUser /\ pcs[j].sub
  /\ Len(iceLog[j]) < Len(cand[pcs[j].call][Listened(pcs[j].role)])
  /\ LET k == cand[pcs[j].call][Listened(pcs[j].role)][Len(iceLog[j]) + 1]
         ok == k = "ok" /\ ~pcs[j].closed /\ (pcs[j].remote \/ pcs[j].cb # <<>>)
     IN /\ iceLog' = [iceLog EXCEPT ![j] = Append(@, IF ok THEN "applied" ELSE "rejected")]
        /\ IF ok THEN UNCHANGED <<rtcVars, audio, voiceLocal, callLocal>>
                 ELSE /\ OnEnded(pcs[j].owner, [pcs EXCEPT ![j].sub = FALSE], audio)
                      /\ UNCHANGED <<voiceCallId, callId>>
  /\ UNCHANGED <<storeVars, page, user, room, myRole, myOverrides, loadData, roomDoc, members,
                 faults,
                 cand, handlerVars, answerWrites, lastReturn>>

\* The candidates subscription of connection j hands over the next added
\* document: addIceCandidate inside try/catch.  It rejects on a closed
\* connection, on one without a remote description, and on a candidate the
\* connection cannot use; invoked while a setRemoteDescription is pending it
\* is queued behind it and finds the description set.
OnCandidateAdded(j) ==
  /\ pcs[j].owner # NoUser /\ pcs[j].sub
  /\ Len(iceLog[j]) < Len(cand[pcs[j].call][Listened(pcs[j].role)])
  /\ LET k == cand[pcs[j].call][Listened(pcs[j].role)][Len(iceLog[j]) + 1]
     IN iceLog' = [iceLog EXCEPT ![j] =
                     Append(@, IF /\ k = "ok" /\ ~pcs[j].closed
                                  /\ (pcs[j].remote \/ pcs[j].cb # <<>>)
                                 THEN "applied" ELSE "rejected")]
  /\ UNCHANGED <<storeVars, page, user, room, myRole, myOverrides, loadData, roomDoc, members,
                 faults, audio,
                 cand, voiceLocal, callLocal, rtcVars, handlerVars, answerWrites,
                 lastReturn>>

NextIce ==
  \/ \E i \in PcIds :
       \/ \E k \in {"ok", "bad"} : onicecandidate(i, k)
       \/ OnCandidateAdded(i)
       \/ OnCallSnapshot(i)
       \/ SetRemoteSettles(i)
  \/ \E u \in Users : exitVoice(u)

SpecIce == InitIce /\ [][NextIce]_vars


\* ================================================================== claims
\* The status lines a handler shows while it is still working.
InProgress == {"creatingRoom", "enteringCreate", "joining", "creating"}

\* Connection i is its owner's current connection, and the handler that made it
\* has published its offer (caller) or its answer (callee).
Participant(i) ==
  /\ pcs[i].owner # NoUser
  /\ pcRef[pcs[i].owner] = i
  /\ at[pcs[i].owner] = "idle"
  /\ pcs[i].sub \/ pcs[i].remote

\* ------------------------------------------------------------------ C1
\* C1: once a CallSession's status is "ended" no step changes its status, its
\* offer or its answer.
C1_EndedIsTerminal ==
  [][\A c \in CallIds :
       calls[c].status = "ended" =>
         /\ calls'[c].status = "ended"
         /\ calls'[c].offer = calls[c].offer
         /\ calls'[c].answer = calls[c].answer]_vars

\* ------------------------------------------------------------------ C2
\* C2: the caller's callback invokes setRemoteDescription(answer) at most once
\* on a connection, however the snapshots of the CallSession arrive.
C2_AnswerAppliedOnce == \A i \in PcIds : pcs[i].applyCalls <= 1

\* ------------------------------------------------------------------ C3
\* C3: when getUserMedia rejects during enter-voice (create branch) the call
\* document made by the attempt is gone, the pointer does not name it, the
\* user's presence record is gone and the status line is no progress line; when
\* it rejects during create-call the status line is no progress line.
C3_MicFailureRolledBack ==
  [][\A u \in Users :
       /\ (enterVoice_claimed(u) /\ at'[u] = "idle") =>
            /\ ~(calls'[hcall[u]].status # "none")
            /\ voice'.callId # hcall[u]
            /\ u \notin voiceMembers'
            /\ voiceStatus'[u] \notin InProgress
       /\ (createCall(u) /\ effectiveCanCall(u) /\ at'[u] = "idle") =>
            callStatus'[u] \notin InProgress]_vars

\* ------------------------------------------------------------------ C4
\* C4: the offer of a CallSession is written by its creator only, and its
\* answer is written at most once.
C4_AnswerWrittenOnce ==
  \A c \in CallIds :
    /\ calls[c].offer \in {NoDesc, calls[c].createdByUid}
    /\ answerWrites[c] <= 1

\* ------------------------------------------------------------------ C5
\* Nothing is left to happen without a user pressing a button: no handler is
\* running, no snapshot is waiting to be delivered and no
\* setRemoteDescription is pending.
Quiescent ==
  /\ \A u \in Users : at[u] = "idle"
  /\ \A i \in PcIds : ~pcs[i].dirty /\ pcs[i].cb = <<>>

\* C5: once nothing is left to happen, every participant of a CallSession with
\* status "ended" has its connection closed and its tracks stopped.
C5_EndedTearsDown ==
  \A i \in PcIds :
    (Quiescent /\ Participant(i) /\ calls[pcs[i].call].status = "ended")
      => (pcs[i].closed /\ pcs[i].stopped)

\* ------------------------------------------------------------------ C6
\* C6: after both members have entered an empty channel, each creating a
\* session, and no session was ended, once no handler is running every voice
\* page holds the id that voice/current holds.
TwoEntered ==
  /\ \A u \in Users : page[u] = "voice"
  /\ \A c \in CallIds : calls[c].status \notin {"none", "ended"}
  /\ \A u \in Users : \E c \in CallIds : calls[c].createdByUid = u

C6_OneActiveCallIdObserved ==
  (TwoEntered /\ \A u \in Users : at[u] = "idle")
    => \A u \in Users : voiceCallId[u] = voice.callId

\* ------------------------------------------------------------------ C7
\* C7: when the admin's close-for-all completes, the session it read from
\* voice/current has status "ended" and the pointer is null; when it read no
\* session, the pointer is null and no CallSession changed in that step.
C7_CloseEndsAndResets ==
  [][\A u \in Users :
       closeVoiceForAll_reset(u) =>
         /\ voice'.callId = NoCall
         /\ calls' = calls
         /\ hcall[u] # NoCall => calls'[hcall[u]].status = "ended"]_vars

\* ------------------------------------------------------------------ C8
\* C8: closeVoiceForAll invoked by a client that is not admin writes no
\* CallSession, not voice/current, and changes no local state of any client.
C8_NonAdminCloseIsNoOp ==
  [][\A u \in Users :
       (~isAdmin(u) /\ closeVoiceForAll(u)) =>
         UNCHANGED <<storeVars, permVars, voiceLocal, callLocal, rtcVars, handlerVars,
                     answerWrites>>]_vars

C8_Witness == lastReturn = <<"closeVoiceForAll", "u2">> /\ voice.callId # NoCall

\* ------------------------------------------------------------------ C9
\* C9: exitVoice deletes the user's own presence record, closes the connection
\* and stops the stream the refs held, and leaves every CallSession,
\* voice/current and every other presence record as they were.
C9_ExitFrame ==
  [][\A u \in Users :
       exitVoice(u) =>
         /\ u \notin voiceMembers'
         /\ voiceMembers' \ {u} = voiceMembers \ {u}
         /\ pcRef'[u] = NoPc /\ localStreamRef'[u] = NoPc
         /\ pcRef[u] # NoPc => pcs'[pcRef[u]].closed
         /\ localStreamRef[u] # NoPc => pcs'[localStreamRef[u]].stopped
         /\ calls' = calls
         /\ voice' = voice]_vars

C9_Witness ==
  /\ voiceStatus["u2"] = "exited"
  /\ "u1" \in voiceMembers /\ "u2" \notin voiceMembers
  /\ voice.callId # NoCall /\ calls[voice.callId].status = "connected"
  /\ \E i \in PcIds : pcs[i].owner = "u2" /\ pcs[i].closed /\ pcs[i].stopped

\* ------------------------------------------------------------------ C10
\* C10 (as stated): with the capability false, enterVoice, createCall and
\* joinCall write nothing to the store, acquire no stream, create no
\* connection, return, and leave the permission notice in the status line.
C10_DeniedWithNotice ==
  [][\A u \in Users :
       (~effectiveCanCall(u) /\ (enterVoice(u) \/ createCall(u) \/ joinCall(u))) =>
         /\ UNCHANGED <<storeVars, rtcVars, handlerVars>>
         /\ IF page[u] = "voice" THEN voiceStatus'[u] = "noPermission"
                                 ELSE callStatus'[u] = "noPermission"]_vars

\* C10 (amended): with the capability false, enterVoice, createCall and joinCall
\* write nothing to the store, acquire no stream, create no connection and
\* return; a signed-in user gets the permission notice in the status line, and
\* with no signed-in user the status lines are left as they were.
C10_DeniedQuietly ==
  [][\A u \in Users :
       (~effectiveCanCall(u) /\ (enterVoice(u) \/ createCall(u) \/ joinCall(u))) =>
         /\ UNCHANGED <<storeVars, rtcVars, handlerVars>>
         /\ IF user[u] = NoUser
              THEN UNCHANGED <<voiceStatus, callStatus>>
              ELSE IF page[u] = "voice" THEN voiceStatus'[u] = "noPermission"
                                        ELSE callStatus'[u] = "noPermission"]_vars

C10_Witness ==
  /\ user["u1"] = NoUser /\ lastReturn = <<"enterVoice", "u1">>
  /\ voiceStatus["u1"] = "inactive"
  /\ user["u2"] # NoUser /\ ~effectiveCanCall("u2")
  /\ voiceStatus["u2"] = "noPermission"
  /\ voiceMembers = {} /\ ~voice.exists
  /\ \A c \in CallIds : ~Exists(c)
  /\ \A i \in PcIds : pcs[i].owner = NoUser

\* ------------------------------------------------------------------ C11
\* C11: on the page of a signed-in user whose role is admin and whose room
\* has loaded, the chat and the call capability both resolve to true, whatever
\* the two locks, the two defaults and the two overrides are.
C11_AdminResolvesTrue ==
  \A u \in Users :
    (user[u] # NoUser /\ room[u].loaded /\ isAdmin(u))
      => (effectiveCanChat(u) /\ effectiveCanCall(u))

C11_Witness ==
  \E u \in Users :
    /\ user[u] # NoUser /\ room[u].loaded /\ isAdmin(u)
    /\ room[u].lockChat = "true" /\ room[u].lockCalls = "true"
    /\ room[u].defaultCanChat = "false" /\ room[u].defaultCanCall = "false"
    /\ myOverrides[u].canChat = "false" /\ myOverrides[u].canCall = "false"
    /\ effectiveCanChat(u) /\ effectiveCanCall(u)

\* ------------------------------------------------------------------ C12
\* C12: on the page of a client that is not admin, a capability whose lock is
\* set resolves to false, whatever the member's override and the room's
\* default for it are.
C12_LockedResolvesFalse ==
  \A u \in Users :
    ~isAdmin(u) =>
      /\ room[u].lockChat = "true" => ~effectiveCanChat(u)
      /\ room[u].lockCalls = "true" => ~effectiveCanCall(u)

C12_Witness ==
  \E u \in Users :
    /\ user[u] # NoUser /\ myRole[u] = "member"
    /\ room[u].lockChat = "true" /\ room[u].lockCalls = "true"
    /\ room[u].defaultCanChat = "true" /\ room[u].defaultCanCall = "true"
    /\ myOverrides[u].canChat = "true" /\ myOverrides[u].canCall = "true"
    /\ ~effectiveCanChat(u) /\ ~effectiveCanCall(u)

\* ------------------------------------------------------------------ C13
\* C13: on the page of a signed-in member that is not admin and whose room has
\* loaded, a capability that is not locked and has a boolean override resolves
\* to the override, whatever the room's default is.
C13_OverrideWins ==
  \A u \in Users :
    (user[u] # NoUser /\ room[u].loaded /\ ~isAdmin(u)) =>
      /\ (room[u].lockChat # "true" /\ myOverrides[u].canChat \in {"true", "false"})
           => (effectiveCanChat(u) <=> myOverrides[u].canChat = "true")
      /\ (room[u].lockCalls # "true" /\ myOverrides[u].canCall \in {"true", "false"})
           => (effectiveCanCall(u) <=> myOverrides[u].canCall = "true")

C13_Witness ==
  \E u \in Users :
    /\ user[u] # NoUser /\ myRole[u] = "member"
    /\ room[u].lockCalls = "false" /\ room[u].defaultCanCall = "true"
    /\ myOverrides[u].canCall = "false"
    /\ ~effectiveCanCall(u)

\* ------------------------------------------------------------------ C14
\* C14: on the page of a signed-in member that is not admin and whose room has
\* loaded, a capability that is not locked and has no boolean override (none
\* stored, or null after the admin's reset) resolves to the room's default,
\* and to true when the room stores no default; and the admin's reset of a
\* member who had canChat = false, in a room whose chat default is true and
\* whose chat is not locked, makes that member's chat resolve to true.
C14_UnsetInherits ==
  \A u \in Users :
    (user[u] # NoUser /\ room[u].loaded /\ ~isAdmin(u)) =>
      /\ (room[u].lockChat # "true" /\ myOverrides[u].canChat \notin {"true", "false"})
           => (effectiveCanChat(u) <=> room[u].defaultCanChat # "false")
      /\ (room[u].lockCalls # "true" /\ myOverrides[u].canCall \notin {"true", "false"})
           => (effectiveCanCall(u) <=> room[u].defaultCanCall # "false")

C14_ResetInherits ==
  /\ []C14_UnsetInherits
  /\ [][\A a, m \in Users :
          (/\ onClickReset(a, m)
           /\ user[m] # NoUser /\ room[m].loaded
           /\ myOverrides[m].canChat = "false" /\ ~effectiveCanChat(m)
           /\ room[m].lockChat # "true" /\ room[m].defaultCanChat = "true")
            => effectiveCanChat(m)']_vars

C14_Witness ==
  \E u \in Users :
    /\ user[u] # NoUser /\ room[u].loaded /\ myRole[u] = "member"
    /\ myOverrides[u].canChat = "null"
    /\ room[u].lockChat # "true" /\ room[u].defaultCanChat = "true"
    /\ effectiveCanChat(u)

\* ------------------------------------------------------------------ C20
\* C20: the member upsert of the room-load effect leaves the canChat and the
\* canCall of the member document as they were: unset stays unset, and an
\* override the admin has set is still there after the member enters again.
C20_UpsertKeepsOverrides ==
  [][\A u \in Users :
       (loadRoom(u) /\ user[u] # NoUser) =>
         /\ members'[u].canChat = members[u].canChat
         /\ members'[u].canCall = members[u].canCall]_vars

\* ------------------------------------------------------------------ C15
\* C15: a ref never holds a connection that is closed or a stream that is
\* stopped, so no teardown releases a resource a second time; and a teardown
\* that runs while both refs are null (nothing was acquired, or an earlier
\* teardown has run) leaves both refs null, the client out of voice, and
\* closes or stops nothing.
Teardown(u) ==
  \/ exitVoice(u)
  \/ hangUp(u)
  \/ \E i \in PcIds :
       /\ pcs[i].owner = u /\ pcs[i].sub /\ pcs[i].dirty
       /\ calls[pcs[i].call].status = "ended"
       /\ ~(pcs[i].role = "caller" /\ ~pcs[i].remote /\ calls[pcs[i].call].answer # NoDesc)
       /\ OnCallSnapshot(i)

C15_TeardownIdempotent ==
  /\ [](\A u \in Users :
          /\ pcRef[u] # NoPc => ~pcs[pcRef[u]].closed
          /\ localStreamRef[u] # NoPc => ~pcs[localStreamRef[u]].stopped)
  /\ [][\A u \in Users :
          (pcRef[u] = NoPc /\ localStreamRef[u] = NoPc /\ Teardown(u)) =>
            /\ pcRef'[u] = NoPc /\ localStreamRef'[u] = NoPc
            /\ ~inVoice'[u]
            /\ \A i \in PcIds :
                 pcs'[i].owner # NoUser =>
                   /\ pcs'[i].closed = pcs[i].closed
                   /\ pcs'[i].stopped = pcs[i].stopped]_vars

\* The client has left the channel (first teardown) and the callback of the
\* session it was in has then seen it ended (second teardown).
C15_Witness ==
  \E u \in Users :
    /\ page[u] = "voice" /\ u \notin voiceMembers /\ voiceStatus[u] = "closed"
    /\ pcRef[u] = NoPc /\ localStreamRef[u] = NoPc /\ ~inVoice[u]

\* ------------------------------------------------------------------ C16
\* C16: when the callee path (joinAsCallee on the voice page, joinCall on the
\* call page) reads a session that does not exist or has no offer, it shows
\* "not found", respectively "not ready", and ends: no stream and no connection
\* is acquired, no CallSession is written, and the client is not in voice.
C16_CalleeStopsWithoutOffer ==
  [][\A u \in Users :
       /\ (/\ joinAsCallee(u)
           /\ (~Exists(hcall[u]) \/ calls[hcall[u]].offer = NoDesc))
            => /\ voiceStatus'[u] = IF Exists(hcall[u]) THEN "notReady" ELSE "notFound"
               /\ at'[u] = "idle" /\ ~inVoice'[u]
               /\ UNCHANGED <<calls, answerWrites, rtcVars>>
       /\ (/\ joinCall(u) /\ user[u] # NoUser /\ effectiveCanCall(u)
           /\ (~Exists(callId[u]) \/ calls[callId[u]].offer = NoDesc))
            => /\ callStatus'[u] = IF Exists(callId[u]) THEN "notReady" ELSE "notFound"
               /\ at'[u] = "idle" /\ ~inVoice'[u]
               /\ UNCHANGED <<calls, answerWrites, rtcVars>>]_vars

\* A member that entered while the session had no offer yet.
C16_Witness ==
  \E u \in Users :
    /\ page[u] = "voice" /\ voiceStatus[u] = "notReady" /\ Exists(voiceCallId[u])
    /\ calls[voiceCallId[u]].offer = NoDesc /\ calls[voiceCallId[u]].answer = NoDesc
    /\ at[u] = "idle" /\ pcRef[u] = NoPc /\ localStreamRef[u] = NoPc /\ ~inVoice[u]
    /\ \A i \in PcIds : pcs[i].owner # u

\* ------------------------------------------------------------------ C18
\* C18: when the offer step of startAsCaller or the answer step of
\* joinAsCallee ends without having published its description (descriptor
\* creation, applying the description or the store write rejected), the
\* connection the handler made is closed, its stream is stopped, and the
\* status line no longer shows the attempt as in progress.
C18_FailureAborts ==
  [][\A u \in Users :
       (/\ startAsCaller(u) \/ joinAsCallee_answer(u)
        /\ calls' = calls)
         => /\ \/ pcs'[hpc[u]].owner = NoUser
               \/ pcs'[hpc[u]].closed /\ pcs'[hpc[u]].stopped
            /\ voiceStatus'[u] \notin InProgress]_vars

\* ------------------------------------------------------------------ C19
\* C19: hangUp on a call page that holds a call id leaves that CallSession with
\* status "ended" unless the write was rejected, and whether it was or not,
\* closes the connection and stops the stream the refs held and clears both
\* refs.
C19_HangUpReleases ==
  [][\A u \in Users :
       (hangUp(u) /\ callId[u] # NoCall) =>
         /\ Exists(callId[u]) => (calls'[callId[u]].status = "ended" \/ calls' = calls)
         /\ pcRef'[u] = NoPc /\ localStreamRef'[u] = NoPc
         /\ pcRef[u] # NoPc =>
              (pcs'[pcRef[u]].owner = NoUser \/ pcs'[pcRef[u]].closed)
         /\ localStreamRef[u] # NoPc =>
              (pcs'[localStreamRef[u]].owner = NoUser \/ pcs'[localStreamRef[u]].stopped)]_vars

\* A callee of the call page that has hung up while the write of "ended" was
\* rejected: the session is still "connected", the client has released.
C19_Witness ==
  \E u \in Users :
    /\ page[u] = "call" /\ Exists(callId[u])
    /\ calls[callId[u]].answer = u /\ calls[callId[u]].status = "connected"
    /\ callStatus[u] = "closed"
    /\ pcRef[u] = NoPc /\ localStreamRef[u] = NoPc
    /\ \A i \in PcIds : pcs[i].owner = u => (pcs[i].closed /\ pcs[i].stopped)

\* ------------------------------------------------------------------ C17
\* C17: when addIceCandidate rejects for a candidate the subscription
\* delivered, nothing but the record of that candidate changes: no connection
\* is closed, no stream stopped, no ref cleared, no CallSession, pointer or
\* presence record written, inVoice and the status lines stay; and a
\* subscription that still has an added document to hand over can always hand
\* it over, whatever happened to the ones before.
C17_CandidateFailureIgnored ==
  /\ [][\A j \in PcIds :
          (OnCandidateAdded(j) /\ iceLog'[j][Len(iceLog'[j])] = "rejected") =>
            UNCHANGED <<storeVars, cand, voiceLocal, callLocal, rtcVars, handlerVars>>]_vars
  /\ [](\A j \in PcIds :
          (/\ pcs[j].owner # NoUser /\ pcs[j].sub
           /\ Len(iceLog[j]) < Len(cand[pcs[j].call][Listened(pcs[j].role)]))
            => ENABLED OnCandidateAdded(j))

\* A connection still open, its owner still in voice and its session still
\* connected, on which a candidate was rejected and the next one added.
C17_Witness ==
  \E j \in PcIds :
    /\ iceLog[j] = <<"rejected", "applied">>
    /\ pcs[j].owner # NoUser /\ ~pcs[j].closed /\ ~pcs[j].stopped
    /\ pcRef[pcs[j].owner] = j /\ inVoice[pcs[j].owner]
    /\ calls[pcs[j].call].status = "connected"

\* ------------------------------------------------------------------ C21
\* C21: a step of a client whose user is not the room's admin (a member, or
\* nobody signed in) leaves the room document as it was: the room-load effect
\* and the settings switch write no setting on such a client.
C21_OnlyAdminWritesRoom ==
  [][\A u \in Users :
       (/\ user[u] # adminUid
        /\ \/ loadRoom_patch(u)
           \/ \E key \in Settings : updateRoomSetting(u, key))
         => roomDoc' = roomDoc]_vars

\* ------------------------------------------------------------------ C22
\* C22: the write of ensureVoiceStateDoc creates voice/current with a null
\* callId when the document is absent, and leaves the callId of a document
\* that exists by then as it is, also when another client has created the
\* document and stored a session id since this client's getDoc.
C22_EnsureKeepsPointer ==
  [][\A u \in Users :
       ensureVoiceStateDoc(u) =>
         /\ voice'.exists
         /\ ~voice.exists => voice'.callId = NoCall
         /\ voice.exists => voice'.callId = voice.callId]_vars

\* ------------------------------------------------------------------ C23
\* C23: a usable candidate that the subscription hands to a connection still
\* open is applied, also when it reaches the caller before the answer has
\* become the connection's remote description: no such candidate is rejected
\* (a rejected candidate is not handed over again).
C23_NoCandidateDropped ==
  [][\A j \in PcIds :
       (/\ OnCandidateAdded(j)
        /\ ~pcs[j].closed
        /\ cand[pcs[j].call][Listened(pcs[j].role)][Len(iceLog'[j])] = "ok")
         => iceLog'[j][Len(iceLog'[j])] = "applied"]_vars

\* ------------------------------------------------------------------ C24
\* C24: after a teardown (exitVoice, hangUp, or the callback that sees the
\* session ended), on the voice page and on the call page: the connection the
\* ref held is closed and the ref is null; the stream the ref held is stopped
\* and the ref is null; the remote audio element has no srcObject; and the
\* page's session id (voiceCallId, respectively callId) is cleared.
C24_TeardownEffects ==
  [][\A u \in Users :
       Teardown(u) =>
         /\ pcRef'[u] = NoPc
         /\ pcRef[u] # NoPc => (pcs'[pcRef[u]].owner = NoUser \/ pcs'[pcRef[u]].closed)
         /\ localStreamRef'[u] = NoPc
         /\ localStreamRef[u] # NoPc =>
              (pcs'[localStreamRef[u]].owner = NoUser \/ pcs'[localStreamRef[u]].stopped)
         /\ ~audio'[u]
         /\ IF page[u] = "voice" THEN voiceCallId'[u] = NoCall
                                 ELSE callId'[u] = NoCall]_vars

\* ------------------------------------------------------------------ C25
\* C25: a CallSession comes into being with status "open", no offer and no
\* answer; in every reachable state a session with an answer has an offer, and
\* a session with status "connected" has an answer.
C25_Lifecycle ==
  /\ [](\A c \in CallIds :
          /\ calls[c].answer # NoDesc => calls[c].offer # NoDesc
          /\ calls[c].status = "connected" => calls[c].answer # NoDesc)
  /\ [][\A c \in CallIds :
          (~Exists(c) /\ calls'[c].status # "none") =>
            /\ calls'[c].status = "open"
            /\ calls'[c].offer = NoDesc /\ calls'[c].answer = NoDesc]_vars

\* One session answered and connected, another just created.
C25_Witness ==
  \E c, d \in CallIds :
    /\ calls[c].status = "connected" /\ calls[c].offer # NoDesc /\ calls[c].answer # NoDesc
    /\ calls[d].status = "open" /\ calls[d].offer = NoDesc /\ calls[d].answer = NoDesc

\* ------------------------------------------------------------------ C26
\* C26: the backfill write of the room-load effect gives every setting that
\* the room document lacks its default, and leaves every setting that holds a
\* boolean when the write lands as it is, also when the admin has written
\* that setting since the effect read the room.
C26_BackfillOnlyFills ==
  [][\A u \in Users :
       loadRoom_patch(u) =>
         \A key \in Settings :
           IF roomDoc[key] \in {"true", "false"}
             THEN roomDoc'[key] = roomDoc[key]
             ELSE roomDoc'[key] = DefaultOf(key)]_vars

\* ------------------------------------------------------------------ C27
\* C27: on the voice page, a callback on calls/{callId} registered with the
\* connection of one session releases nothing of another session of the same client: when it
\* runs (on a snapshot, or when its setRemoteDescription settles), every open
\* connection the client holds for another session stays open, every live
\* stream of another session stays live, and a client that is in voice with
\* the connection of another session stays in voice.
C27_CallbackReleasesOwnSession ==
  [][\A i, j \in PcIds :
       (/\ OnCallSnapshot(i) \/ SetRemoteSettles(i)
        /\ page[pcs[i].owner] = "voice"
        /\ pcs[j].owner = pcs[i].owner
        /\ pcs[j].call # pcs[i].call)
         => /\ ~pcs[j].closed => (pcs'[j].owner = pcs[j].owner /\ ~pcs'[j].closed)
            /\ ~pcs[j].stopped => (pcs'[j].owner = pcs[j].owner /\ ~pcs'[j].stopped)
            /\ (pcRef[pcs[j].owner] = j /\ inVoice[pcs[j].owner])
                 => inVoice'[pcs[j].owner]]_vars

\* ------------------------------------------------------------------ C28
\* C28: in every reachable state a client owns at most one connection that
\* is not closed and at most one stream that is not stopped; and no step puts
\* another connection or stream into a client's ref while the one the ref
\* held is still open, respectively live.
C28_OneTransportPerClient ==
  /\ [](\A u \in Users :
          /\ Cardinality({i \in PcIds : pcs[i].owner = u /\ ~pcs[i].closed}) <= 1
          /\ Cardinality({i \in PcIds : pcs[i].owner = u /\ ~pcs[i].stopped}) <= 1)
  /\ [][\A u \in Users :
          /\ (pcRef[u] # NoPc /\ pcRef'[u] # pcRef[u])
               => (pcs'[pcRef[u]].owner # u \/ pcs'[pcRef[u]].closed)
          /\ (localStreamRef[u] # NoPc /\ localStreamRef'[u] # localStreamRef[u])
               => (pcs'[localStreamRef[u]].owner # u \/ pcs'[localStreamRef[u]].stopped)]_vars

\* ------------------------------------------------------------------ C29
\* The positions of a running enterVoice.
EnterSteps ==
  {"ensureSet", "voiceGet", "claim", "claimed", "callerOffer", "calleeGet", "calleeAnswer"}

\* C29: a user whose client runs no enterVoice and is not in voice has no
\* presence record in voiceMembers.
C29_PresenceMatchesParticipation ==
  \A u \in Users :
    (at[u] \notin EnterSteps /\ ~inVoice[u]) => u \notin voiceMembers

\* ------------------------------------------------------------------ C30
\* The creator of session c is still setting it up, or owns an open
\* connection for it.
CallerPresent(c) ==
  LET creator == calls[c].createdByUid
  IN \/ creator \in Users /\ at[creator] \in {"claimed", "callerOffer"} /\ hcall[creator] = c
     \/ \E i \in PcIds : pcs[i].owner = creator /\ pcs[i].call = c /\ ~pcs[i].closed

\* C30: whenever voice/current holds a session id, that CallSession exists
\* and its creator is still setting it up or owns an open connection for it;
\* and a callee of the voice page that writes its answer answers a session
\* whose offer is not its own and whose creator owns an open connection for it.
C30_PointerNamesLiveSession ==
  /\ [](voice.callId # NoCall => (Exists(voice.callId) /\ CallerPresent(voice.callId)))
  /\ [][\A u \in Users :
          (joinAsCallee_answer(u) /\ calls'[hcall[u]].answer # calls[hcall[u]].answer)
            => /\ calls[hcall[u]].offer # u
               /\ CallerPresent(hcall[u])]_vars

====
